---- MODULE Spec2Model ----
(***************************************************************************)
(* Model of src/logic.py: the roster model builder (class Solver), its     *)
(* hospital specialisation (class HospitalSolver) and the roster           *)
(* projections.  The CP-SAT engine is an external collaborator: it is      *)
(* modelled by its contract (a status, and for OPTIMAL / FEASIBLE a        *)
(* valuation that satisfies every constraint added to the model).          *)
(*                                                                         *)
(* Python lists and numpy axes are 0-based: they are functions over        *)
(* 0..n-1 here.  A decision variable vars[n][r][d][s] is the coordinate    *)
(* <<n, r, d, s>>; a valuation is the set of coordinates whose variable    *)
(* is 1.                                                                   *)
(***************************************************************************)
EXTENDS Integers, Sequences, FiniteSets, TLC

VARIABLES
    cls,                \* class of the object: "Solver" or "HospitalSolver"
    args,               \* the argument list handed to solve
    pc,                 \* position inside solve, "done" / "failed" after it
    err,                \* exception that left solve ("none" when none)
    numDays, numShifts, numResources, numRoles,
    resourcesLookup, resourceIdLookup, rolesLookup, rolesIdLookup,
    resourceRoleMapping,
    requirementMapping,
    vars,               \* the coordinates of the created grid
    model,              \* the CpModel: constraints and objective
    non_sequential_shifts_indices,
    status,             \* what CpSolver.Solve returned
    value,              \* the engine's valuation: coordinates valued 1
    ret,                \* what solve returned to its caller
    call,               \* the last projection called
    out                 \* and what it returned

state == <<cls, args, pc, err, numDays, numShifts, numResources, numRoles,
            resourcesLookup, resourceIdLookup, rolesLookup, rolesIdLookup,
            resourceRoleMapping, requirementMapping, vars, model,
            non_sequential_shifts_indices, status, value, ret, call, out>>

(***************************************************************************)
(* Bounds of the checked inputs.                                           *)
(***************************************************************************)
MaxDays == 2
MaxReq == 2
MaxGrid == 12
MaxWeight == 1
MaxSoftWeight == 2
MaxRequests == 2
MaxRoleList == 2

\* A Python list is a function over 0..len-1: the list of a sequence, and len.
List(seq) == [i \in 0..(Len(seq) - 1) |-> seq[i + 1]]
PyLen(l) == Cardinality(DOMAIN l)
Range(f) == {f[x] : x \in DOMAIN f}
Empty == <<>>

ResourceKeys == {"A", "B"}
RoleKeys == {"R1", "R2"}

\* args[0]: a dict in key order, as a sequence of (key, role list) items.
ResourceRoleMaps ==
    { <<[key |-> "A", roles |-> <<"R1">>]>>,
      <<[key |-> "A", roles |-> <<"R1", "R2">>]>>,
      <<[key |-> "A", roles |-> <<"R1">>], [key |-> "B", roles |-> <<"R1">>]>>,
      <<[key |-> "A", roles |-> <<"R1">>], [key |-> "B", roles |-> <<"R1", "R2">>]>>,
      <<[key |-> "B", roles |-> <<"R2">>], [key |-> "A", roles |-> <<"R1", "R2">>]>> }

\* Row lengths of args[1]: day 0 has 1..3 shifts, a later day the same
\* number, one fewer or one more.
ShiftCounts == {1, 2, 3}
Shapes ==
    {Empty}
    \cup UNION {{sh \in [0..(nd - 1) -> 0..4] :
                    /\ sh[0] \in ShiftCounts
                    /\ \A d \in 1..(nd - 1) : sh[d] \in {sh[0] - 1, sh[0], sh[0] + 1}}
                : nd \in 1..MaxDays}

\* A requirement entry: role `role` needs `req` resources at (day, shift).
EntrySets(sh) ==
    LET slots == {x \in (DOMAIN sh) \X (0..4) \X RoleKeys : x[2] < sh[x[1]]}
    IN  {{}} \cup {{[slot |-> x, req |-> q]} : x \in slots, q \in 0..MaxReq}

CellOf(E, d, s) ==
    LET here == {e \in E : e.slot[1] = d /\ e.slot[2] = s}
    IN  [k \in {e.slot[3] : e \in here} |->
            (CHOOSE e \in here : e.slot[3] = k).req]

\* args[1]: the requirement matrix of a shape and a set of entries.
MatrixOf(sh, E) == [d \in DOMAIN sh |-> [s \in 0..(sh[d] - 1) |-> CellOf(E, d, s)]]

\* args[2] and args[3]: lists of leave requests.
LeaveDays == 0..MaxDays
HardLeaveLists ==
    {Empty} \cup {<<[resource |-> k, day |-> d]>> : k \in ResourceKeys, d \in LeaveDays}
SoftLeaveLists ==
    {Empty} \cup {<<[resource |-> k, day |-> d, weight |-> w]>> :
                     k \in ResourceKeys, d \in LeaveDays, w \in 0..MaxWeight}

\* The argument lists checked: the grid they span stays within MaxGrid; the
\* requirement matrix holds at most one entry; HospitalSolver gets either
\* at most one hard leave next to it or one soft leave alone.  The base
\* class reads args[0] and args[1] only.
RoleCount(m) == Cardinality(UNION {Range(m[i].roles) : i \in DOMAIN m})
GridSize(m, sh) == Len(m) * RoleCount(m) * PyLen(sh) * (IF sh = Empty THEN 0 ELSE sh[0])
Features(c, sh) ==
    {<<E, Empty, Empty>> : E \in EntrySets(sh)}
    \cup (IF c = "HospitalSolver"
          THEN {<<E, hl, Empty>> : E \in EntrySets(sh), hl \in HardLeaveLists}
               \cup {<<{}, Empty, sl>> : sl \in SoftLeaveLists}
          ELSE {})
ArgShapes(m) == {sh \in Shapes : GridSize(m, sh) <= MaxGrid}
ArgList(m, sh, f) == <<m, MatrixOf(sh, f[1]), f[2], f[3]>>

(***************************************************************************)
(* Identifier registry: Solver._createEmployeeRoleLookup.                  *)
(***************************************************************************)
\* `if not (x in seen): seen.append(x)` over a sequence, in order.
RECURSIVE Dedup(_)
Dedup(seq) ==
    IF seq = <<>> THEN <<>>
    ELSE LET front == Dedup(SubSeq(seq, 1, Len(seq) - 1))
             last == seq[Len(seq)]
         IN  IF last \in Range(front) THEN front ELSE Append(front, last)

RECURSIVE Concat(_)
Concat(seqs) == IF seqs = <<>> THEN <<>> ELSE Head(seqs) \o Concat(Tail(seqs))

\* {x: id for id, x in enumerate(names)}
IdLookup(names) == [x \in Range(names) |-> CHOOSE i \in 0..(Len(names) - 1) : names[i + 1] = x]

registryResources(arg) == Dedup([i \in DOMAIN arg |-> arg[i].key])
\* As registryRoles, a role looked up among the roles of its own list only.
registryRoles_PerList(arg) == Concat([i \in DOMAIN arg |-> Dedup(arg[i].roles)])

registryRoles(arg) == Dedup(Concat([i \in DOMAIN arg |-> arg[i].roles]))

createEmployeeRoleLookup(arg) ==
    LET resources == registryResources(arg)
        roles == registryRoles(arg)
        rid == IdLookup(resources)
        kid == IdLookup(roles)
    IN  [resourcesLookup |-> List(resources),
         resourceIdLookup |-> rid,
         numResources |-> Len(resources),
         rolesLookup |-> List(roles),
         rolesIdLookup |-> kid,
         numRoles |-> Len(roles),
         resourceRoleMapping |->
            [n \in {rid[arg[i].key] : i \in DOMAIN arg} |->
                LET item == arg[CHOOSE i \in DOMAIN arg : rid[arg[i].key] = n]
                IN  List([j \in DOMAIN item.roles |-> kid[item.roles[j]]])]]

(***************************************************************************)
(* Constraints.  model.Add(expr op rhs) adds a linear constraint: `coef`   *)
(* gives the coefficient of every variable of the expression.              *)
(***************************************************************************)
Resources == 0..(numResources - 1)
Roles == 0..(numRoles - 1)
Days == 0..(numDays - 1)
Shifts == 0..(numShifts - 1)
Grid == Resources \X Roles \X Days \X Shifts

Con(coef, op, rhs) == [coef |-> coef, op |-> op, rhs |-> rhs]

\* What a step that may raise yields: the exception, or its result.
Raise(e) == [err |-> e, val |-> {}]
Ok(v) == [err |-> "none", val |-> v]

\* As removeExtraRoles, the shift loop starting at 1.
removeExtraRoles_SkipShift0 ==
    {Con([c \in {<<n, r, d, s>>} |-> 1], "==", 0) :
        <<n, r, d, s>> \in {c \in Grid : /\ c[2] \notin Range(resourceRoleMapping[c[1]])
                                         /\ c[4] >= 1}}

\* Solver._removeExtraRoles
removeExtraRoles ==
    {Con([c \in {<<n, r, d, s>>} |-> 1], "==", 0) :
        <<n, r, d, s>> \in {c \in Grid : c[2] \notin Range(resourceRoleMapping[c[1]])}}

\* Solver._createRequirementMapping: "KeyError" when a role key is unknown.
createRequirementMapping(arg) ==
    IF \E d \in DOMAIN arg : \E s \in DOMAIN arg[d] :
          \E k \in DOMAIN arg[d][s] : k \notin DOMAIN rolesIdLookup
    THEN Raise("KeyError")
    ELSE Ok([d \in DOMAIN arg |-> [s \in DOMAIN arg[d] |->
            [r \in {rolesIdLookup[k] : k \in DOMAIN arg[d][s]} |->
                arg[d][s][CHOOSE k \in DOMAIN arg[d][s] : rolesIdLookup[k] = r]]]])

\* As setRequirementConstraint, the requirement taken as a ceiling.
setRequirementConstraint_AtMost ==
    IF \E d \in Days : \E s \in Shifts : s \notin DOMAIN requirementMapping[d]
    THEN Raise("IndexError")
    ELSE Ok({Con([c \in {<<n, x[3], x[1], x[2]>> : n \in Resources} |-> 1], "<=",
                 requirementMapping[x[1]][x[2]][x[3]]) :
               x \in {y \in Days \X Shifts \X Roles :
                         y[3] \in DOMAIN requirementMapping[y[1]][y[2]]}})

\* As setRequirementConstraint, the sum asked to reach only one less than
\* the requirement.
setRequirementConstraint_OneLess ==
    IF \E d \in Days : \E s \in Shifts : s \notin DOMAIN requirementMapping[d]
    THEN Raise("IndexError")
    ELSE Ok({Con([c \in {<<n, x[3], x[1], x[2]>> : n \in Resources} |-> 1], ">=",
                 requirementMapping[x[1]][x[2]][x[3]] - 1) :
               x \in {y \in Days \X Shifts \X Roles :
                         y[3] \in DOMAIN requirementMapping[y[1]][y[2]]}})

\* Solver._setRequirementConstraint: "IndexError" when a day has fewer
\* shifts than day 0.
setRequirementConstraint ==
    IF \E d \in Days : \E s \in Shifts : s \notin DOMAIN requirementMapping[d]
    THEN Raise("IndexError")
    ELSE Ok({Con([c \in {<<n, x[3], x[1], x[2]>> : n \in Resources} |-> 1], ">=",
                 requirementMapping[x[1]][x[2]][x[3]]) :
               x \in {y \in Days \X Shifts \X Roles :
                         y[3] \in DOMAIN requirementMapping[y[1]][y[2]]}})

\* As maxOneShiftPerDay, the sum taken over the shifts of role 0 only.
maxOneShiftPerDay_Role0 ==
    {Con([c \in {<<n, r, d, s>> : r \in Roles \cap {0}, s \in Shifts} |-> 1], "<=", 1) :
        <<n, d>> \in Resources \X Days}

\* Solver._maxOneShiftPerDay
maxOneShiftPerDay ==
    {Con([c \in {<<n, r, d, s>> : r \in Roles, s \in Shifts} |-> 1], "<=", 1) :
        <<n, d>> \in Resources \X Days}

RECURSIVE SumOver(_, _)
SumOver(f, S) ==
    IF S = {} THEN 0
    ELSE LET x == CHOOSE y \in S : TRUE IN f[x] + SumOver(f, S \ {x})

\* As iIdx, reading the second component of the pair.
iIdx_Second(dependence) == dependence[2]

\* Solver._nextDayShift, lines 272-275: the cell a declared pair marks.
iIdx(dependence) == dependence[1]
jIdx(dependence) == dependence[1]

\* Solver._nextDayShift, lines 270-275: the matrix of marked pairs;
\* "IndexError" when a marked index is no shift.
markedShifts(arg) ==
    IF \E k \in DOMAIN arg : iIdx(arg[k]) \notin Shifts \/ jIdx(arg[k]) \notin Shifts
    THEN Raise("IndexError")
    ELSE Ok([s \in Shifts |-> [j \in Shifts |->
            IF \E k \in DOMAIN arg : iIdx(arg[k]) = s /\ jIdx(arg[k]) = j THEN 1 ELSE 0]])

\* Solver._nextDayShift, lines 277-283: one constraint per resource, day
\* before the last and shift.  vars[n][r][d][s] occurs once for every j,
\* with coefficient M[s][j]; vars[n][r][d+1][j] occurs once.
nextDayShiftConstraints(M) ==
    {Con([c \in {<<x[1], r, x[2], x[3]>> : r \in Roles}
                \cup {<<x[1], r, x[2] + 1, j>> : r \in Roles, j \in Shifts} |->
             IF c[3] = x[2] /\ c[4] = x[3]
             THEN SumOver(M[x[3]], Shifts) ELSE 1],
         "<=", 1) :
        x \in Resources \X (0..(numDays - 2)) \X Shifts}

\* Solver._banShift: arg = (resource id, day, shift); "IndexError" when the
\* day or shift is off the grid.
banShift(arg) ==
    IF numRoles > 0 /\ (arg[2] \notin Days \/ arg[3] \notin Shifts)
    THEN Raise("IndexError")
    ELSE Ok({Con([c \in {<<arg[1], r, arg[2], arg[3]>>} |-> 1], "==", 0) : r \in Roles})

\* As hardLeaveShifts, the last shift left out.
hardLeaveShifts_NotLast == 0..(numShifts - 2)

\* HospitalSolver._hardLeave: the shifts banned for one leave.
hardLeaveShifts == Shifts

\* HospitalSolver._hardLeave for the leaves from position k on: the
\* constraints added, or the exception of the first leave that raises.
RECURSIVE hardLeaveFrom(_, _)
hardLeaveFrom(arg, k) ==
    IF k > Len(arg) THEN Ok({})
    ELSE LET leave == arg[k]
         IN  IF hardLeaveShifts = {} THEN hardLeaveFrom(arg, k + 1)
             ELSE IF leave.resource \notin DOMAIN resourceIdLookup THEN Raise("KeyError")
             ELSE LET n == resourceIdLookup[leave.resource]
                      bans == [s \in hardLeaveShifts |-> banShift(<<n, leave.day, s>>)]
                      rest == hardLeaveFrom(arg, k + 1)
                  IN  IF \E s \in hardLeaveShifts : bans[s].err # "none"
                      THEN Raise("IndexError")
                      ELSE IF rest.err # "none" THEN rest
                      ELSE Ok(rest.val \cup UNION {bans[s].val : s \in hardLeaveShifts})

hardLeave(arg) == hardLeaveFrom(arg, 1)

\* HospitalSolver._softLeave, lines 456-458, for one request: the weight is
\* stored at every shift and role of the request's resource and day.
softLeaveWrite_Add(grid, request) ==
    [c \in DOMAIN grid |->
        IF c[1] = resourceIdLookup[request.resource] /\ c[3] = request.day
        THEN grid[c] + request.weight ELSE grid[c]]

softLeaveWrite_NotLast(grid, request) ==
    [c \in DOMAIN grid |->
        IF /\ c[1] = resourceIdLookup[request.resource]
           /\ c[3] = request.day
           /\ c[4] < numShifts - 1
        THEN request.weight ELSE grid[c]]

softLeaveWrite(grid, request) ==
    [c \in DOMAIN grid |->
        IF c[1] = resourceIdLookup[request.resource] /\ c[3] = request.day
        THEN request.weight ELSE grid[c]]

\* lines 455-458: the requests from position k on, written in list order.
RECURSIVE softLeaveFrom(_, _, _)
softLeaveFrom(grid, arg, k) ==
    IF k > Len(arg) THEN grid
    ELSE softLeaveFrom(softLeaveWrite(grid, arg[k]), arg, k + 1)

\* HospitalSolver._softLeave, lines 454-458: the penalty grid, zero before
\* the requests are written; the exception of the first request that raises.
softLeavePenalty(arg) ==
    LET touches == numShifts > 0 /\ numRoles > 0
        bad(k) == /\ touches
                  /\ \/ arg[k].resource \notin DOMAIN resourceIdLookup
                     \/ arg[k].day \notin Days
    IN  IF \E k \in DOMAIN arg : bad(k)
        THEN LET k == CHOOSE i \in DOMAIN arg : bad(i) /\ \A j \in 1..(i - 1) : ~bad(j)
             IN  IF arg[k].resource \notin DOMAIN resourceIdLookup
                 THEN Raise("KeyError") ELSE Raise("IndexError")
        ELSE Ok(softLeaveFrom([c \in Grid |-> 0], arg, 1))

(***************************************************************************)
(* The engine behind CpSolver.Solve, by its contract.                      *)
(***************************************************************************)
Holds(c, v) ==
    LET lhs == SumOver(c.coef, (DOMAIN c.coef) \cap v)
    IN  CASE c.op = "==" -> lhs = c.rhs
          [] c.op = "<=" -> lhs <= c.rhs
          [] c.op = ">=" -> lhs >= c.rhs

Support(c) == {x \in DOMAIN c.coef : c.coef[x] # 0}

\* The valuations of the grid that satisfy every constraint.  They are
\* enumerated one (resource, day) block at a time: a constraint whose
\* variables all lie in a block prunes that block's part first, and every
\* constraint is checked on the whole valuation at the end.
Block(b) == {c \in vars : c[1] = b[1] /\ c[3] = b[2]}
BlockSolutions(cons, b) ==
    LET local == {c \in cons : Support(c) \subseteq Block(b)}
    IN  {v \in SUBSET Block(b) : \A c \in local : Holds(c, v)}

RECURSIVE Compose(_, _)
Compose(cons, blocks) ==
    IF blocks = {} THEN {{}}
    ELSE LET b == CHOOSE x \in blocks : TRUE
             rest == Compose(cons, blocks \ {b})
         IN  UNION {{v \cup w : w \in rest} : v \in BlockSolutions(cons, b)}

Accepted(cons) ==
    {v \in Compose(cons, {<<c[1], c[3]>> : c \in vars}) : \A c \in cons : Holds(c, v)}

Cost(v) == IF model.hasObjective THEN SumOver(model.minimize, v) ELSE 0

\* What Solve may report.  A solution comes with OPTIMAL when no solution
\* costs less (always, for a model without objective) and with FEASIBLE when
\* the model has an objective; UNKNOWN is the time limit.
SolveOutcomes ==
    LET sols == Accepted(model.constraints)
        costs == {Cost(v) : v \in sols}
        least == CHOOSE c \in costs : \A x \in costs : c <= x
        best == {v \in sols : Cost(v) = least}
    IN  {[status |-> "UNKNOWN", value |-> {}]}
        \cup (IF sols = {} THEN {[status |-> "INFEASIBLE", value |-> {}]} ELSE {})
        \cup {[status |-> "OPTIMAL", value |-> v] : v \in best}
        \cup (IF model.hasObjective
              THEN {[status |-> "FEASIBLE", value |-> v] : v \in sols} ELSE {})

Solved == pc = "done" /\ status \in {"OPTIMAL", "FEASIBLE"}

(***************************************************************************)
(* Solver.solve, one action per statement.                                 *)
(***************************************************************************)
NoCall == [op |-> "none", day |-> 0, resource |-> ""]
NoModel == [constraints |-> {}, minimize |-> Empty, hasObjective |-> FALSE]

\* What solve hands back for the status _finalSolve returned (line 383).
solveReturn(st) == "None"

Init ==
    /\ cls \in {"Solver", "HospitalSolver"}
    /\ \E m \in ResourceRoleMaps : \E sh \in ArgShapes(m) : \E f \in Features(cls, sh) :
          args = ArgList(m, sh, f)
    /\ pc = "createModel"
    /\ err = "none"
    /\ numDays = 0
    /\ numShifts = IF cls = "HospitalSolver" THEN 3 ELSE 0
    /\ numResources = 0
    /\ numRoles = 0
    /\ resourcesLookup = Empty
    /\ resourceIdLookup = Empty
    /\ rolesLookup = Empty
    /\ rolesIdLookup = Empty
    /\ resourceRoleMapping = Empty
    /\ requirementMapping = Empty
    /\ vars = {}
    /\ model = NoModel
    /\ non_sequential_shifts_indices = Empty
    /\ status = "unset"
    /\ value = {}
    /\ ret = "unset"
    /\ call = NoCall
    /\ out = Empty

Fail(e) == pc' = "failed" /\ err' = e
Goto(p) == pc' = p /\ err' = err
AddConstraints(cons) == model' = [model EXCEPT !.constraints = @ \cup cons]

Registry == <<numResources, numRoles, resourcesLookup, resourceIdLookup,
              rolesLookup, rolesIdLookup, resourceRoleMapping>>
Engine == <<status, value, ret>>
Projection == <<call, out>>

\* lines 372-374
CreateModel ==
    /\ pc = "createModel"
    /\ IF args[2] = Empty
       THEN Fail("IndexError") /\ UNCHANGED <<model, numDays, numShifts>>
       ELSE /\ Goto("createEmployeeRoleLookup")
            /\ model' = NoModel
            /\ numDays' = PyLen(args[2])
            /\ numShifts' = PyLen(args[2][0])
    /\ UNCHANGED <<cls, args, Registry, requirementMapping, vars,
                   non_sequential_shifts_indices, Engine, Projection>>

\* line 375
CreateEmployeeRoleLookup ==
    /\ pc = "createEmployeeRoleLookup"
    /\ LET reg == createEmployeeRoleLookup(args[1])
       IN  /\ resourcesLookup' = reg.resourcesLookup
           /\ resourceIdLookup' = reg.resourceIdLookup
           /\ numResources' = reg.numResources
           /\ rolesLookup' = reg.rolesLookup
           /\ rolesIdLookup' = reg.rolesIdLookup
           /\ numRoles' = reg.numRoles
           /\ resourceRoleMapping' = reg.resourceRoleMapping
    /\ Goto("createVars")
    /\ UNCHANGED <<cls, args, numDays, numShifts, requirementMapping, vars, model,
                   non_sequential_shifts_indices, Engine, Projection>>

\* line 376: Solver._createVars
CreateVars ==
    /\ pc = "createVars"
    /\ vars' = Grid
    /\ Goto("removeExtraRoles")
    /\ UNCHANGED <<cls, args, numDays, numShifts, Registry, requirementMapping, model,
                   non_sequential_shifts_indices, Engine, Projection>>

\* line 377
RemoveExtraRoles ==
    /\ pc = "removeExtraRoles"
    /\ AddConstraints(removeExtraRoles)
    /\ Goto("createRequirementMapping")
    /\ UNCHANGED <<cls, args, numDays, numShifts, Registry, requirementMapping, vars,
                   non_sequential_shifts_indices, Engine, Projection>>

\* line 378
CreateRequirementMapping ==
    /\ pc = "createRequirementMapping"
    /\ LET r == createRequirementMapping(args[2])
       IN  IF r.err # "none"
           THEN Fail(r.err) /\ UNCHANGED requirementMapping
           ELSE Goto("setRequirementConstraint") /\ requirementMapping' = r.val
    /\ UNCHANGED <<cls, args, numDays, numShifts, Registry, vars, model,
                   non_sequential_shifts_indices, Engine, Projection>>

\* line 379
SetRequirementConstraint ==
    /\ pc = "setRequirementConstraint"
    /\ LET r == setRequirementConstraint
       IN  IF r.err # "none"
           THEN Fail(r.err) /\ UNCHANGED model
           ELSE Goto("maxOneShiftPerDay") /\ AddConstraints(r.val)
    /\ UNCHANGED <<cls, args, numDays, numShifts, Registry, requirementMapping, vars,
                   non_sequential_shifts_indices, Engine, Projection>>

\* line 380
MaxOneShiftPerDay ==
    /\ pc = "maxOneShiftPerDay"
    /\ AddConstraints(maxOneShiftPerDay)
    /\ Goto("childConstraints")
    /\ UNCHANGED <<cls, args, numDays, numShifts, Registry, requirementMapping, vars,
                   non_sequential_shifts_indices, Engine, Projection>>

\* line 381 in the base class: Solver.childConstraints is `pass`
ChildConstraints ==
    /\ pc = "childConstraints"
    /\ cls = "Solver"
    /\ Goto("finalSolve")
    /\ UNCHANGED <<cls, args, numDays, numShifts, Registry, requirementMapping, vars,
                   model, non_sequential_shifts_indices, Engine, Projection>>

\* HospitalSolver._dayAfterNight: the pairs it declares
NightPairs == <<<<2, 0>>, <<2, 1>>, <<2, 2>>>>

\* line 474: HospitalSolver.childConstraints, _dayAfterNight
DayAfterNight ==
    /\ pc = "childConstraints"
    /\ cls = "HospitalSolver"
    /\ LET m == markedShifts(NightPairs)
       IN  IF m.err # "none"
           THEN Fail(m.err) /\ UNCHANGED <<model, non_sequential_shifts_indices>>
           ELSE /\ Goto("hardLeave")
                /\ non_sequential_shifts_indices' = m.val
                /\ AddConstraints(nextDayShiftConstraints(m.val))
    /\ UNCHANGED <<cls, args, numDays, numShifts, Registry, requirementMapping, vars,
                   Engine, Projection>>

\* line 475: HospitalSolver.childConstraints, _hardLeave
HardLeave ==
    /\ pc = "hardLeave"
    /\ LET r == hardLeave(args[3])
       IN  IF r.err # "none"
           THEN Fail(r.err) /\ UNCHANGED model
           ELSE Goto("softLeave") /\ AddConstraints(r.val)
    /\ UNCHANGED <<cls, args, numDays, numShifts, Registry, requirementMapping, vars,
                   non_sequential_shifts_indices, Engine, Projection>>

\* line 476: HospitalSolver.childConstraints, _softLeave
SoftLeave ==
    /\ pc = "softLeave"
    /\ LET r == softLeavePenalty(args[4])
       IN  IF r.err # "none"
           THEN Fail(r.err) /\ UNCHANGED model
           ELSE /\ Goto("finalSolve")
                /\ model' = [model EXCEPT !.minimize = r.val, !.hasObjective = TRUE]
    /\ UNCHANGED <<cls, args, numDays, numShifts, Registry, requirementMapping, vars,
                   non_sequential_shifts_indices, Engine, Projection>>

\* line 383: _finalSolve, then solve returns
FinalSolve ==
    /\ pc = "finalSolve"
    /\ \E o \in SolveOutcomes :
          /\ status' = o.status
          /\ value' = o.value
          /\ ret' = solveReturn(o.status)
    /\ Goto("done")
    /\ UNCHANGED <<cls, args, numDays, numShifts, Registry, requirementMapping, vars,
                   model, non_sequential_shifts_indices, Projection>>

(***************************************************************************)
(* Roster projections.  A Python dict with computed keys is a function     *)
(* over those keys, next to the fields under its fixed keys: `days` holds  *)
(* the 'Day_<d>' items, `shifts` the 'Shift <s>' items, `roles` the items  *)
(* under a role name.                                                      *)
(***************************************************************************)
Value(c) == c \in value

\* The elements of a set of integers in ascending order.
RECURSIVE Ascending(_)
Ascending(S) ==
    IF S = {} THEN <<>>
    ELSE LET m == CHOOSE x \in S : \A y \in S : x <= y
         IN  <<m>> \o Ascending(S \ {m})

\* Solver.getRosterByResource, lines 389-395: the (shift, role) found last
\* on day d, shifts ascending and roles ascending within a shift.
lastFound(resourceID, d) ==
    LET found == {x \in Shifts \X Roles : Value(<<resourceID, x[2], d, x[1]>>)}
    IN  CHOOSE x \in found :
            \A y \in found : y[1] < x[1] \/ (y[1] = x[1] /\ y[2] <= x[2])

\* Solver.getRosterByResource
getRosterByResource(resourceName) ==
    LET resourceID == resourceIdLookup[resourceName]
        assigned == {d \in Days : \E s \in Shifts, r \in Roles :
                        Value(<<resourceID, r, d, s>>)}
    IN  [Resource |-> resourceName,
         days |-> [d \in assigned |->
                    [Role |-> rolesLookup[lastFound(resourceID, d)[2]],
                     Shift |-> lastFound(resourceID, d)[1]]]]

\* Solver.getRosterAllResources
getRosterAllResources ==
    [name \in {resourcesLookup[n] : n \in Resources} |-> getRosterByResource(name)]

\* Solver.getRosterByDay, lines 409-413: the resources found for a role.
roleResources(day, s, r) == {n \in Resources : Value(<<n, r, day, s>>)}

\* Solver.getRosterByDay, lines 414-415: the roles entered in a shift's dict.
shiftRoles(day, s) == {r \in Roles : Cardinality(roleResources(day, s, r)) # 0}

\* Solver.getRosterByDay, lines 416-417: the shifts entered in the day's
\* dict; the shift's dict holds the key 'Shift' and one key per role.
shiftsEntered(day) ==
    {s \in Shifts :
        Cardinality({"Shift"} \cup {rolesLookup[r] : r \in shiftRoles(day, s)}) >= 1}

\* Solver.getRosterByDay: the lookup of line 412 raises KeyError for a role
\* that is no key of the requirement dict of (day, s).
getRosterByDay(day) ==
    IF \E s \in Shifts : \E r \in shiftRoles(day, s) :
            r \notin DOMAIN requirementMapping[day][s]
    THEN Raise("KeyError")
    ELSE Ok([Day |-> day,
             shifts |-> [s \in shiftsEntered(day) |->
                [Shift |-> s,
                 roles |-> [name \in {rolesLookup[r] : r \in shiftRoles(day, s)} |->
                    LET r == CHOOSE q \in shiftRoles(day, s) : rolesLookup[q] = name
                        ns == Ascending(roleResources(day, s, r))
                    IN  [Requirement |-> <<requirementMapping[day][s][r]>>,
                         Resources |-> [i \in DOMAIN ns |-> resourcesLookup[ns[i]]]]]]]])

\* Solver.getRosterAllDays
getRosterAllDays ==
    IF \E d \in Days : getRosterByDay(d).err # "none"
    THEN Raise("KeyError")
    ELSE Ok([d \in Days |-> getRosterByDay(d).val])

\* A projection reads the solved session and changes none of it, so each is
\* taken from the state solve left: a further call returns the same dict.
Projecting == Solved /\ call = NoCall

Solving == <<cls, args, pc, err, numDays, numShifts, Registry, requirementMapping,
             vars, model, non_sequential_shifts_indices, Engine>>

GetRosterByResource(resourceName) ==
    /\ Projecting
    /\ call' = [op |-> "getRosterByResource", day |-> 0, resource |-> resourceName]
    /\ out' = Ok(getRosterByResource(resourceName))
    /\ UNCHANGED Solving

GetRosterAllResources ==
    /\ Projecting
    /\ call' = [op |-> "getRosterAllResources", day |-> 0, resource |-> ""]
    /\ out' = Ok(getRosterAllResources)
    /\ UNCHANGED Solving

GetRosterByDay(day) ==
    /\ Projecting
    /\ call' = [op |-> "getRosterByDay", day |-> day, resource |-> ""]
    /\ out' = getRosterByDay(day)
    /\ UNCHANGED Solving

GetRosterAllDays ==
    /\ Projecting
    /\ call' = [op |-> "getRosterAllDays", day |-> 0, resource |-> ""]
    /\ out' = getRosterAllDays
    /\ UNCHANGED Solving

Next ==
    \/ CreateModel
    \/ CreateEmployeeRoleLookup
    \/ CreateVars
    \/ RemoveExtraRoles
    \/ CreateRequirementMapping
    \/ SetRequirementConstraint
    \/ MaxOneShiftPerDay
    \/ ChildConstraints
    \/ DayAfterNight
    \/ HardLeave
    \/ SoftLeave
    \/ FinalSolve
    \/ \E resourceName \in DOMAIN resourceIdLookup : GetRosterByResource(resourceName)
    \/ GetRosterAllResources
    \/ \E day \in Days : GetRosterByDay(day)
    \/ GetRosterAllDays

Spec == Init /\ [][Next]_state

\* solve alone, for what holds of the model it builds and of the valuations
\* the engine returns: the projections read them and change none.
NextSolve ==
    \/ CreateModel
    \/ CreateEmployeeRoleLookup
    \/ CreateVars
    \/ RemoveExtraRoles
    \/ CreateRequirementMapping
    \/ SetRequirementConstraint
    \/ MaxOneShiftPerDay
    \/ ChildConstraints
    \/ DayAfterNight
    \/ HardLeave
    \/ SoftLeave
    \/ FinalSolve

SpecSolve == Init /\ [][NextSolve]_state

(***************************************************************************)
(* Solver._nextDayShift with any list of pairs: a subclass whose           *)
(* childConstraints is the one call self._nextDayShift(args[4]).  SpecNext *)
(* runs solve for such a subclass and for HospitalSolver.                  *)
(***************************************************************************)
PairLists ==
    LET pairs == (0..2) \X (0..2)
    IN  {Empty} \cup {<<x>> : x \in pairs} \cup {<<x, y>> : x \in pairs, y \in pairs}

TransitionShapes == {sh \in Shapes : sh # Empty /\ \A d \in DOMAIN sh : sh[d] = sh[0] /\ sh[0] >= 2}

TransitionArgLists(c) ==
    UNION {UNION {{<<m, MatrixOf(sh, {}), Empty, Empty, p>> :
                      p \in IF c = "HospitalSolver" THEN {NightPairs} ELSE PairLists}
                  : sh \in {x \in TransitionShapes : GridSize(m, x) <= MaxGrid}}
           : m \in ResourceRoleMaps}

InitNext ==
    /\ cls \in {"Subclass", "HospitalSolver"}
    /\ args \in TransitionArgLists(cls)
    /\ pc = "createModel"
    /\ err = "none"
    /\ numDays = 0
    /\ numShifts = IF cls = "HospitalSolver" THEN 3 ELSE 0
    /\ numResources = 0
    /\ numRoles = 0
    /\ resourcesLookup = Empty
    /\ resourceIdLookup = Empty
    /\ rolesLookup = Empty
    /\ rolesIdLookup = Empty
    /\ resourceRoleMapping = Empty
    /\ requirementMapping = Empty
    /\ vars = {}
    /\ model = NoModel
    /\ non_sequential_shifts_indices = Empty
    /\ status = "unset"
    /\ value = {}
    /\ ret = "unset"
    /\ call = NoCall
    /\ out = Empty

\* line 381 in the subclass: Solver._nextDayShift(args[4])
NextDayShift ==
    /\ pc = "childConstraints"
    /\ cls = "Subclass"
    /\ LET m == markedShifts(args[5])
       IN  IF m.err # "none"
           THEN Fail(m.err) /\ UNCHANGED <<model, non_sequential_shifts_indices>>
           ELSE /\ Goto("finalSolve")
                /\ non_sequential_shifts_indices' = m.val
                /\ AddConstraints(nextDayShiftConstraints(m.val))
    /\ UNCHANGED <<cls, args, numDays, numShifts, Registry, requirementMapping, vars,
                   Engine, Projection>>

NextNext ==
    \/ CreateModel
    \/ CreateEmployeeRoleLookup
    \/ CreateVars
    \/ RemoveExtraRoles
    \/ CreateRequirementMapping
    \/ SetRequirementConstraint
    \/ MaxOneShiftPerDay
    \/ NextDayShift
    \/ DayAfterNight
    \/ HardLeave
    \/ SoftLeave
    \/ FinalSolve

SpecNext == InitNext /\ [][NextNext]_state

(***************************************************************************)
(* HospitalSolver.solve with lists of several soft-leave requests.         *)
(* SpecSoft runs it on one day of three shifts for two resources, with at  *)
(* most one requirement of one resource, and on two days of three shifts   *)
(* for one resource.                                                       *)
(***************************************************************************)
SoftLeaveSequences(keys, days) ==
    LET requests == [resource : keys, day : days, weight : 0..MaxSoftWeight]
    IN  UNION {[1..n -> requests] : n \in 0..MaxRequests}

HospitalShape(nd) == [d \in 0..(nd - 1) |-> 3]

SoftArgLists ==
    UNION {{<<m, MatrixOf(HospitalShape(1), E), Empty, sl>> :
               E \in {X \in EntrySets(HospitalShape(1)) : \A e \in X : e.req = 1},
               sl \in SoftLeaveSequences(ResourceKeys, {0})}
           : m \in {x \in ResourceRoleMaps : Len(x) = 2}}
    \cup UNION {{<<m, MatrixOf(HospitalShape(2), {}), Empty, sl>> :
                    sl \in SoftLeaveSequences({"A"}, {0, 1})}
                : m \in {x \in ResourceRoleMaps : Len(x) = 1}}

InitSoft ==
    /\ cls = "HospitalSolver"
    /\ args \in SoftArgLists
    /\ pc = "createModel"
    /\ err = "none"
    /\ numDays = 0
    /\ numShifts = 3
    /\ numResources = 0
    /\ numRoles = 0
    /\ resourcesLookup = Empty
    /\ resourceIdLookup = Empty
    /\ rolesLookup = Empty
    /\ rolesIdLookup = Empty
    /\ resourceRoleMapping = Empty
    /\ requirementMapping = Empty
    /\ vars = {}
    /\ model = NoModel
    /\ non_sequential_shifts_indices = Empty
    /\ status = "unset"
    /\ value = {}
    /\ ret = "unset"
    /\ call = NoCall
    /\ out = Empty

NextSoft ==
    \/ CreateModel
    \/ CreateEmployeeRoleLookup
    \/ CreateVars
    \/ RemoveExtraRoles
    \/ CreateRequirementMapping
    \/ SetRequirementConstraint
    \/ MaxOneShiftPerDay
    \/ DayAfterNight
    \/ HardLeave
    \/ SoftLeave
    \/ FinalSolve

SpecSoft == InitSoft /\ [][NextSoft]_state

(***************************************************************************)
(* Solver._createEmployeeRoleLookup on dicts of up to two resources in     *)
(* either key order, whose role lists may be empty, repeat a role and      *)
(* share roles.  SpecRegistry runs solve up to the registry and then calls *)
(* the method a second time with the same dict.                            *)
(***************************************************************************)
RegistryRoleLists == UNION {[1..n -> RoleKeys \cup {"R3"}] : n \in 0..MaxRoleList}
RegistryMaps ==
    {Empty}
    \cup {<<[key |-> k, roles |-> l]>> : k \in ResourceKeys, l \in RegistryRoleLists}
    \cup {<<[key |-> k1, roles |-> l1], [key |-> k2, roles |-> l2]>> :
             <<k1, k2>> \in {x \in ResourceKeys \X ResourceKeys : x[1] # x[2]},
             l1 \in RegistryRoleLists, l2 \in RegistryRoleLists}

InitRegistry ==
    /\ cls = "Solver"
    /\ args \in {<<m, MatrixOf(List(<<1>>), {}), Empty, Empty>> : m \in RegistryMaps}
    /\ pc = "createModel"
    /\ err = "none"
    /\ numDays = 0
    /\ numShifts = 0
    /\ numResources = 0
    /\ numRoles = 0
    /\ resourcesLookup = Empty
    /\ resourceIdLookup = Empty
    /\ rolesLookup = Empty
    /\ rolesIdLookup = Empty
    /\ resourceRoleMapping = Empty
    /\ requirementMapping = Empty
    /\ vars = {}
    /\ model = NoModel
    /\ non_sequential_shifts_indices = Empty
    /\ status = "unset"
    /\ value = {}
    /\ ret = "unset"
    /\ call = NoCall
    /\ out = Empty

\* self._createEmployeeRoleLookup(args[0]) called again on the same object
RecreateEmployeeRoleLookup ==
    /\ pc = "createVars"
    /\ call = NoCall
    /\ LET reg == createEmployeeRoleLookup(args[1])
       IN  /\ resourcesLookup' = reg.resourcesLookup
           /\ resourceIdLookup' = reg.resourceIdLookup
           /\ numResources' = reg.numResources
           /\ rolesLookup' = reg.rolesLookup
           /\ rolesIdLookup' = reg.rolesIdLookup
           /\ numRoles' = reg.numRoles
           /\ resourceRoleMapping' = reg.resourceRoleMapping
    /\ call' = [NoCall EXCEPT !.op = "_createEmployeeRoleLookup"]
    /\ UNCHANGED <<cls, args, pc, err, numDays, numShifts, requirementMapping, vars,
                   model, non_sequential_shifts_indices, Engine, out>>

NextRegistry ==
    \/ CreateModel
    \/ CreateEmployeeRoleLookup
    \/ RecreateEmployeeRoleLookup

SpecRegistry == InitRegistry /\ [][NextRegistry]_state

(***************************************************************************)
(* Properties of solved rosters.                                           *)
(***************************************************************************)
Hospital == cls = "HospitalSolver"
AssignedOn(n, d) == {c \in value : c[1] = n /\ c[3] = d}
Staff(r, d, s) == {n \in Resources : Value(<<n, r, d, s>>)}

\* C1: daily exclusivity.  In every valuation the engine returns for the
\* model solve built, a resource has at most one true (role, shift) pair
\* on a day.
C1_DailyExclusivity ==
    Solved => \A n \in Resources, d \in Days : Cardinality(AssignedOn(n, d)) <= 1

\* A solved roster in which a resource with several (role, shift) pairs to
\* choose from works one of them on a day while its colleague works too.
C1_Witness ==
    /\ Solved
    /\ numRoles * numShifts >= 2
    /\ \E n \in Resources, m \in Resources, d \in Days :
          /\ n # m
          /\ Cardinality(AssignedOn(n, d)) = 1
          /\ Cardinality(AssignedOn(m, d)) = 1

C3_EligibilityPruned ==
    Solved =>
        \A n \in Resources, r \in Roles :
            r \notin Range(resourceRoleMapping[n]) =>
                \A d \in Days, s \in Shifts : ~Value(<<n, r, d, s>>)

\* A solved roster where a role one resource may not hold is held by the
\* other resource, while the first one works in a role it may hold.
C3_Witness ==
    /\ Solved
    /\ \E n \in Resources, m \in Resources, r \in Roles, d \in Days, s \in Shifts :
          /\ r \notin Range(resourceRoleMapping[n])
          /\ Value(<<m, r, d, s>>)
          /\ AssignedOn(n, d) # {}

\* C4: hard leave.  In every valuation the engine returns for a model built
\* by HospitalSolver.solve, a resource listed with a day in args[2] holds no
\* role in any shift 0..numShifts-1 of that day, numShifts being the shift
\* count of day 0 of the requirement matrix passed to solve.
C4_HardLeave ==
    (Solved /\ Hospital) =>
        /\ numShifts = PyLen(args[2][0])
        /\ \A k \in DOMAIN args[3] : \A r \in Roles, s \in Shifts :
              ~Value(<<resourceIdLookup[args[3][k].resource], r, args[3][k].day, s>>)

\* A solved hospital roster with a hard leave, where the resource on leave
\* works on another day and a colleague works on the day of the leave.
C4_Witness ==
    /\ Solved /\ Hospital
    /\ \E k \in DOMAIN args[3] :
          LET n == resourceIdLookup[args[3][k].resource]
              day == args[3][k].day
          IN  /\ AssignedOn(n, day) = {}
              /\ \E d \in Days \ {day} : AssignedOn(n, d) # {}

\* The pairs handed to _nextDayShift.
DeclaredPairs == IF Hospital THEN NightPairs ELSE args[5]
OnShift(n, d, s) == \E r \in Roles : Value(<<n, r, d, s>>)

\* C5: forbidden shift transition.  In every valuation the engine returns
\* after _nextDayShift was applied with a list of (fromShift, toShift)
\* pairs, no resource is on fromShift on a day d < numDays-1, in any role,
\* and on toShift on day d+1, in any role, for any declared pair; under
\* HospitalSolver the pairs are night (2) to morning, evening and night.
C5_ForbiddenTransition ==
    Solved =>
        \A k \in DOMAIN DeclaredPairs, n \in Resources, d \in 0..(numDays - 2) :
            ~(OnShift(n, d, DeclaredPairs[k][1]) /\ OnShift(n, d + 1, DeclaredPairs[k][2]))

\* A solved roster of the subclass with a declared pair of two different
\* shifts: one resource is on the pair's fromShift on day d and off on day
\* d+1, while a colleague is on the pair's toShift on day d+1.
C5_Witness ==
    /\ Solved /\ cls = "Subclass"
    /\ \E k \in DOMAIN DeclaredPairs, n \in Resources, m \in Resources,
          d \in 0..(numDays - 2) :
          /\ DeclaredPairs[k][1] # DeclaredPairs[k][2]
          /\ n # m
          /\ OnShift(n, d, DeclaredPairs[k][1])
          /\ AssignedOn(n, d + 1) = {}
          /\ OnShift(m, d + 1, DeclaredPairs[k][2])

\* C6: status propagation.  Once solve has returned, the value it handed
\* to its caller is the status the engine returned from Solve.
C6_StatusReturned == pc = "done" => ret = status

\* C7: input-shape errors stop construction.  With a day whose shift count
\* differs from day 0, a leave naming a resource key that is not in
\* resourceRoleMap, or a requirement naming a role no resource lists, solve
\* never gets as far as invoking the engine.
ListedResources == {args[1][i].key : i \in DOMAIN args[1]}
ListedRoles == UNION {Range(args[1][i].roles) : i \in DOMAIN args[1]}
InputShapeError ==
    \/ \E d \in DOMAIN args[2] : PyLen(args[2][d]) # PyLen(args[2][0])
    \/ \E k \in DOMAIN args[3] : args[3][k].resource \notin ListedResources
    \/ \E k \in DOMAIN args[4] : args[4][k].resource \notin ListedResources
    \/ \E d \in DOMAIN args[2] : \E s \in DOMAIN args[2][d] :
          \E k \in DOMAIN args[2][d][s] : k \notin ListedRoles
C7_ShapeErrorsFail ==
    InputShapeError => (pc \notin {"finalSolve", "done"} /\ status = "unset")

\* C8: per-day projection.  For a solved roster and any day, getRosterByDay
\* completes, and every role with a resource assigned in a shift of the day
\* is entered under its name in that shift's entry with the resources
\* assigned, by ascending index, and the headcount required.
C8_PerDayProjection ==
    call.op = "getRosterByDay" =>
        /\ out.err = "none"
        /\ \A s \in Shifts, r \in Roles :
              Staff(r, call.day, s) # {} =>
                /\ s \in DOMAIN out.val.shifts
                /\ rolesLookup[r] \in DOMAIN out.val.shifts[s].roles
                /\ LET e == out.val.shifts[s].roles[rolesLookup[r]]
                       ns == Ascending(Staff(r, call.day, s))
                   IN  /\ e.Resources = [i \in DOMAIN ns |-> resourcesLookup[ns[i]]]
                       /\ r \in DOMAIN requirementMapping[call.day][s] =>
                            e.Requirement = <<requirementMapping[call.day][s][r]>>

\* The assignments by name: of the valuation, and as read from each view.
TrueAssignments ==
    {<<resourcesLookup[c[1]], c[3], rolesLookup[c[2]], c[4]>> : c \in value}
ResourceView(cal) ==
    UNION {{<<name, d, cal[name].days[d].Role, cal[name].days[d].Shift>> :
               d \in DOMAIN cal[name].days} : name \in DOMAIN cal}
DayView(cal) ==
    UNION {UNION {UNION {{<<cal[d].shifts[s].roles[k].Resources[i], d, k, s>> :
                            i \in DOMAIN cal[d].shifts[s].roles[k].Resources}
                         : k \in DOMAIN cal[d].shifts[s].roles}
                  : s \in DOMAIN cal[d].shifts}
           : d \in DOMAIN cal}

\* C9: projection round trip.  For a solved roster, the assignments read
\* from getRosterAllResources and from getRosterAllDays are the same set,
\* the coordinates whose variable is true.
C9_RoundTrip ==
    /\ call.op = "getRosterAllResources" => ResourceView(out.val) = TrueAssignments
    /\ call.op = "getRosterAllDays" =>
          /\ out.err = "none"
          /\ DayView(out.val) = TrueAssignments
          /\ DayView(out.val) = ResourceView(getRosterAllResources)

\* C10: empty entries are omitted.  getRosterByResource has no item for a
\* day without assignment, getRosterAllResources none for a resource without
\* assignment, getRosterByDay none for a shift or role without resource, and
\* getRosterAllDays none for a day without assignment.
C10_EmptyOmitted ==
    /\ call.op = "getRosterByResource" =>
          \A d \in DOMAIN out.val.days :
              AssignedOn(resourceIdLookup[call.resource], d) # {}
    /\ call.op = "getRosterAllResources" =>
          \A name \in DOMAIN out.val :
              \E d \in Days : AssignedOn(resourceIdLookup[name], d) # {}
    /\ (call.op = "getRosterByDay" /\ out.err = "none") =>
          \A s \in DOMAIN out.val.shifts :
              /\ \E r \in Roles : Staff(r, call.day, s) # {}
              /\ \A k \in DOMAIN out.val.shifts[s].roles :
                    Staff(rolesIdLookup[k], call.day, s) # {}
    /\ (call.op = "getRosterAllDays" /\ out.err = "none") =>
          \A d \in DOMAIN out.val : \E n \in Resources : AssignedOn(n, d) # {}

\* The case of C11: requests i and j of args[3] are the only soft leaves,
\* they name the two resources on day d, request i with the larger weight;
\* role k, which both resources list, is required once at (d, s) and
\* nothing else is required; there is no hard leave.
SoftPreferenceCase(d, s, k, i, j) ==
    /\ Len(args[1]) = 2 /\ Len(args[4]) = 2 /\ args[3] = Empty
    /\ \A x \in DOMAIN args[1] : k \in Range(args[1][x].roles)
    /\ \A d2 \in Days, s2 \in Shifts :
          DOMAIN args[2][d2][s2] = IF <<d2, s2>> = <<d, s>> THEN {k} ELSE {}
    /\ args[2][d][s][k] = 1
    /\ args[4][i].resource # args[4][j].resource
    /\ args[4][i].day = d /\ args[4][j].day = d
    /\ args[4][i].weight > args[4][j].weight

\* C11: soft-leave preference.  With two resources eligible for the one
\* role required once in one (day, shift) slot and soft leaves for both on
\* that day, every valuation the engine reports as OPTIMAL puts the
\* resource with the smaller weight in the slot in that role and leaves the
\* resource with the larger weight off on that day.
C11_SoftLeavePreference ==
    (Solved /\ Hospital /\ status = "OPTIMAL") =>
        \A d \in Days, s \in Shifts : \A k \in DOMAIN args[2][d][s] :
            \A i \in DOMAIN args[4], j \in DOMAIN args[4] :
                SoftPreferenceCase(d, s, k, i, j) =>
                    /\ Value(<<resourceIdLookup[args[4][j].resource], rolesIdLookup[k], d, s>>)
                    /\ AssignedOn(resourceIdLookup[args[4][i].resource], d) = {}

\* An optimal roster of the case where the resource in the slot has a
\* positive weight itself and was asked for second.
C11_Witness ==
    /\ Solved /\ Hospital /\ status = "OPTIMAL"
    /\ \E d \in Days, s \in Shifts : \E k \in DOMAIN args[2][d][s] :
          /\ SoftPreferenceCase(d, s, k, 1, 2)
          /\ args[4][2].weight > 0
          /\ Value(<<resourceIdLookup[args[4][2].resource], rolesIdLookup[k], d, s>>)
          /\ AssignedOn(resourceIdLookup[args[4][1].resource], d) = {}

\* The problem of C12: A may hold R1, B may hold R1 or R2, one day of one
\* shift, one resource required in R1.
TwoResourceScenario ==
    /\ args[1] = <<[key |-> "A", roles |-> <<"R1">>],
                   [key |-> "B", roles |-> <<"R1", "R2">>]>>
    /\ DOMAIN args[2] = {0}
    /\ DOMAIN args[2][0] = {0}
    /\ args[2][0][0] = [k \in {"R1"} |-> 1]
Holding(name, role) == Value(<<resourceIdLookup[name], rolesIdLookup[role], 0, 0>>)

\* C12 as stated: two-resource scenario.  When the engine comes back within
\* its time limit it reports OPTIMAL or FEASIBLE, and in every valuation it
\* returns exactly one of A and B holds R1 in the slot and B does not hold
\* R2 there.
C12_TwoResourceScenario ==
    (TwoResourceScenario /\ pc = "done" /\ status # "UNKNOWN") =>
        /\ status \in {"OPTIMAL", "FEASIBLE"}
        /\ Holding("A", "R1") # Holding("B", "R1")
        /\ ~Holding("B", "R2")

\* C12 as amended: in the two-resource scenario the model Solver.solve
\* hands to the engine has a solution, so the engine never reports
\* INFEASIBLE; in every valuation it returns at least one of A and B holds
\* R1 in the slot, and B holds R2 there only while A holds R1 and B does
\* not.
C12_TwoResourceScenarioLowerBound ==
    (TwoResourceScenario /\ cls = "Solver") =>
        /\ pc = "finalSolve" => Accepted(model.constraints) # {}
        /\ pc = "done" => status \in {"OPTIMAL", "FEASIBLE", "UNKNOWN"}
        /\ Solved =>
              /\ Holding("A", "R1") \/ Holding("B", "R1")
              /\ Holding("B", "R2") => (Holding("A", "R1") /\ ~Holding("B", "R1"))

\* A roster of the scenario the engine may return with A in R1 and B in R2.
C12_Witness ==
    /\ TwoResourceScenario /\ cls = "Solver" /\ Solved
    /\ Holding("A", "R1") /\ Holding("B", "R2")

\* The roles of the input dict at their places: <<i, j>> is place j of the
\* role list of item i; a place is earlier when its item is, or its place
\* within the same item.
RolePlaces == UNION {{<<i, j>> : j \in DOMAIN args[1][i].roles} : i \in DOMAIN args[1]}
Earlier(x, y) == x[1] < y[1] \/ (x[1] = y[1] /\ x[2] < y[2])
RoleAt(x) == args[1][x[1]].roles[x[2]]
FirstSeen(x) == \A y \in RolePlaces : RoleAt(y) = RoleAt(x) => ~Earlier(y, x)
RegistryBuilt == pc = "createVars"

\* C13: registry determinism.  However often _createEmployeeRoleLookup has
\* run on the input dict, the resource at place i of the dict has index
\* i-1, a role has as index the number of roles first seen before it
\* (resource by resource, then along the role list), whether or not it is
\* repeated; the indices are 0..numResources-1 and 0..numRoles-1; the
\* name-to-index and index-to-name maps are inverse to each other; and a
\* resource's eligibility set holds the indices of the roles it lists.
C13_RegistryDeterminism ==
    RegistryBuilt =>
        /\ numResources = Len(args[1])
        /\ DOMAIN resourceIdLookup = {args[1][i].key : i \in DOMAIN args[1]}
        /\ \A i \in DOMAIN args[1] : resourceIdLookup[args[1][i].key] = i - 1
        /\ numRoles = Cardinality({RoleAt(x) : x \in RolePlaces})
        /\ DOMAIN rolesIdLookup = {RoleAt(x) : x \in RolePlaces}
        /\ \A x \in RolePlaces :
              rolesIdLookup[RoleAt(x)] =
                  Cardinality({y \in RolePlaces : FirstSeen(y) /\ \E z \in RolePlaces :
                                  FirstSeen(z) /\ RoleAt(z) = RoleAt(x) /\ Earlier(y, z)})
        /\ DOMAIN resourcesLookup = 0..(numResources - 1)
        /\ DOMAIN rolesLookup = 0..(numRoles - 1)
        /\ \A k \in DOMAIN resourceIdLookup : resourcesLookup[resourceIdLookup[k]] = k
        /\ \A n \in DOMAIN resourcesLookup : resourceIdLookup[resourcesLookup[n]] = n
        /\ \A k \in DOMAIN rolesIdLookup : rolesLookup[rolesIdLookup[k]] = k
        /\ \A r \in DOMAIN rolesLookup : rolesIdLookup[rolesLookup[r]] = r
        /\ DOMAIN resourceRoleMapping = 0..(numResources - 1)
        /\ \A i \in DOMAIN args[1] :
              Range(resourceRoleMapping[i - 1]) =
                  {rolesIdLookup[r] : r \in Range(args[1][i].roles)}

\* The registry after the second run on a dict in the key order B, A, where
\* B repeats a role in its list and A lists that role after a new one.
C13_Witness ==
    /\ RegistryBuilt
    /\ call.op = "_createEmployeeRoleLookup"
    /\ Len(args[1]) = 2
    /\ args[1][1].key = "B" /\ args[1][2].key = "A"
    /\ Len(args[1][1].roles) = 2 /\ args[1][1].roles[1] = args[1][1].roles[2]
    /\ Len(args[1][2].roles) = 2 /\ args[1][2].roles[2] = args[1][1].roles[1]
    /\ args[1][2].roles[1] # args[1][1].roles[1]
    /\ resourceIdLookup["B"] = 0 /\ resourceIdLookup["A"] = 1
    /\ numRoles = 2
    /\ rolesIdLookup[args[1][1].roles[1]] = 0
    /\ rolesIdLookup[args[1][2].roles[1]] = 1

\* The valuation in which resource n holds role r in shift s on day d and
\* role r2 in shift j on day d+1, and nothing else.
TwoDayValuation(n, r, d, s, r2, j) == {<<n, r, d, s>>, <<n, r2, d + 1, j>>}

\* C14: only declared transitions constrain.  Once _nextDayShift has added
\* its constraints for a list of (fromShift, toShift) pairs, for every
\* shift pair (s, j) that is not in the list, every resource n and every
\* day d < numDays-1, the valuation with n on s on day d and on j on day
\* d+1 and nothing else satisfies every one of these constraints.
C14_OnlyDeclaredTransitions ==
    pc = "finalSolve" =>
        \A s \in Shifts, j \in Shifts :
            <<s, j>> \notin Range(DeclaredPairs) =>
                \A n \in Resources, d \in 0..(numDays - 2), r \in Roles, r2 \in Roles :
                    \A c \in nextDayShiftConstraints(non_sequential_shifts_indices) :
                        Holds(c, TwoDayValuation(n, r, d, s, r2, j))

\* The requests of args[3] that name the resource and the day of coordinate c.
Naming(c) ==
    {k \in DOMAIN args[4] : /\ resourceIdLookup[args[4][k].resource] = c[1]
                            /\ args[4][k].day = c[3]}
ObjectiveSet == Hospital /\ pc \in {"finalSolve", "done"}

\* C15: soft-leave weights overwrite, never accumulate.  In the objective
\* HospitalSolver.solve hands to the engine, the coefficient of every
\* coordinate (resource, role, day, shift) is the weight of the last request
\* of the list that names that resource and day, whatever the role and the
\* shift, and 0 when no request names them.
C15_SoftLeaveOverwrite ==
    ObjectiveSet =>
        /\ model.hasObjective
        /\ DOMAIN model.minimize = Grid
        /\ \A c \in Grid :
              model.minimize[c] =
                  IF Naming(c) = {} THEN 0
                  ELSE args[4][CHOOSE k \in Naming(c) : \A i \in Naming(c) : i <= k].weight

\* An objective built from two requests for the same resource and day, the
\* first with the larger weight and the second with a positive one: every
\* coordinate of that resource and day carries the second weight, and some
\* coordinate no request names carries 0.
C15_Witness ==
    /\ ObjectiveSet
    /\ Len(args[4]) = 2
    /\ args[4][1].resource = args[4][2].resource
    /\ args[4][1].day = args[4][2].day
    /\ args[4][1].weight > args[4][2].weight
    /\ args[4][2].weight > 0
    /\ \A c \in Grid : Naming(c) # {} => model.minimize[c] = args[4][2].weight
    /\ \E c \in Grid : Naming(c) = {1, 2}
    /\ \E c \in Grid : Naming(c) = {} /\ model.minimize[c] = 0

====
